---------------------------- MODULE Spec2Model ----------------------------
(***************************************************************************)
(* OlegDB core: the chained hash table of src/src/oleg.c (open, jar,       *)
(* unjar, scoop, grow/rehash, close), its append-only log hooks, and the   *)
(* dump writer/reader of src/src/dump.c (save, background save, load).     *)
(*                                                                         *)
(* A chain (ol_bucket.next links, last link NULL) is a sequence of bucket  *)
(* records; db.hashes is the sequence of chains, slot i at index i + 1.    *)
(* Byte strings are sequences of bytes; byte 0 is the C terminator.        *)
(***************************************************************************)
EXTENDS Integers, Sequences, FiniteSets, TLC

VARIABLES
    db,        \* struct ol_database of the parent process, or NoDb
    pc,        \* position of the parent: "closed", "restore", "ready"
    aol_file,  \* content of <path>/<name>.aol: the commands appended so far
    aol_pos,   \* number of AOL commands already replayed by ol_aol_restore
    inodes,    \* file system: inode number -> sequence of written items
    tmp_ino,   \* inode that <name>.dump-tmp names, 0 when the name is absent
    dump_ino,  \* inode that <name>.dump names, 0 when the name is absent
    savers,    \* processes inside ol_save_db: 0 the parent, 1.. forked children
    lastOp,    \* observation: the entry point that ran last, inputs and result
    obs,       \* observation: what the last step did (see NoObs)
    hist,      \* observation: what the calls so far amount to (see NoHist)
    nops       \* number of calls made on an open store so far

vars == <<db, pc, aol_file, aol_pos, inodes, tmp_ino, dump_ino, savers,
          lastOp, obs, hist, nops>>

-----------------------------------------------------------------------------
(* Bounds of the model *)

\* Calls of ol_jar and ol_scoop explored from construction.
MaxOps == 4
\* Calls of ol_open explored.
MaxOpens == 2
\* Commands in the append-only log explored.
MaxLog == 3
\* Calls of ol_save_db explored, and how many of them run at once.
MaxSaves == 2
\* Calls of ol_load_db explored.
MaxLoads == 1
\* Calls of ol_jar and ol_scoop explored around saves and loads.
MaxDumpOps == 3
\* Calls of ol_jar and ol_scoop explored while background saves run.
MaxBgOps == 2
\* Calls of ol_jar, ol_jar_ct and ol_scoop explored with long keys.
MaxKeyOps == 3
\* Calls of ol_jar and ol_scoop explored across two grows of the table.
MaxGrowOps == 7
\* Calls of ol_jar and ol_scoop explored while the feature flag is toggled.
MaxFlagOps == 3

(* Program constants (include/oleg.h is not part of the sources at hand; *)
(* the values are scaled so that the table fills and grows within MaxOps) *)

\* KEY_SIZE: the longest stored key.
KEY_SIZE == 2
\* sizeof(ol_bucket *)
SizeofBucketPtr == 8
\* HASH_MALLOC: bytes of the initial bucket array (two slots).
HASH_MALLOC == 16

\* The keys callers pass (byte strings without the terminator).
Keys == { <<>>, <<1>>, <<2>>, <<1, 1>>, <<2, 2>> }
\* The values callers pass.
Values == { <<1>>, <<2>> }
\* The keys and values callers pass around saves and loads.
DumpKeys == { <<>>, <<2>>, <<1, 1>> }
DumpValues == { <<1>> }
\* The keys callers pass while background saves run.
BgKeys == { <<>>, <<2>> }
\* Keys up to and beyond KEY_SIZE bytes: <<1, 1, 1>> and <<1, 1, 2>> agree
\* with <<1, 1>> on their first KEY_SIZE bytes.
LongKeys == { <<>>, <<2>>, <<1, 1>>, <<1, 1, 1>>, <<1, 1, 2>> }
\* The content type arguments callers pass to ol_jar_ct: the string and
\* content_type_size.
ContentTypes == { <<"text/plain", 10>>, <<"text/plain", 0>> }
\* "application/octet-stream", the content type ol_jar passes, and its size.
DefaultCt == "application/octet-stream"
DefaultCtSize == 24

NoDb == [closed |-> TRUE]
\* The null pointer a lookup returns: no byte string.
NULL == <<-1>>

OL_F_APPENDONLY == "OL_F_APPENDONLY"
OL_S_STARTUP == "OL_S_STARTUP"
OL_S_AOKAY == "OL_S_AOKAY"

-----------------------------------------------------------------------------
(* C string helpers *)

Min(a, b) == IF a < b THEN a ELSE b

\* The first n elements of s (all of s when it is shorter).
Take(s, n) == SubSeq(s, 1, Min(n, Len(s)))

\* strnlen(s, n): the number of bytes before the first 0 byte, at most n.
strnlen(s, n) ==
    LET stops == { i \in 1..Min(n, Len(s)) : s[i] = 0 }
    IN  IF stops = {} THEN Min(n, Len(s))
        ELSE (CHOOSE i \in stops : \A j \in stops : i <= j) - 1

\* The C string held in s: its bytes up to the first 0 byte.
CStr(s) == SubSeq(s, 1, strnlen(s, Len(s)))

\* strncmp(a, b, n) == 0: the first n bytes of the two C strings agree,
\* a string that ends earlier comparing its terminator.
strncmp_eq(a, b, n) == Take(CStr(a), n) = Take(CStr(b), n)

\* MurmurHash3_x86_32(key, len, DEVILS_SEED): a 32-bit fingerprint of the
\* first len bytes. Stand-in: a positional polynomial of the bytes (the
\* keys of the model are short, the polynomial never wraps).
RECURSIVE MurmurHash3_x86_32(_, _)
MurmurHash3_x86_32(key, len) ==
    IF len = 0 THEN 0
    ELSE (MurmurHash3_x86_32(key, len - 1) * 3 + key[len]) % 1073741824

\* x & (n - 1) for n a power of two.
BitAndMask(x, n) == x % n

Range(s) == { s[i] : i \in DOMAIN s }

-----------------------------------------------------------------------------
(* Hash table *)

ol_ht_bucket_max(ht_size) == ht_size \div SizeofBucketPtr

_ol_calc_idx(ht_size, hash) == BitAndMask(hash, ol_ht_bucket_max(ht_size))

\* A key copy that keeps all klen bytes: with it a key longer than KEY_SIZE
\* is stored whole.
_ol_trunc_whole(key, klen) == CStr(Take(key, klen))

\* _ol_trunc followed by strnlen(_key, KEY_SIZE): the key a call works with.
_ol_trunc(key, klen) ==
    LET real_key_len == IF klen > KEY_SIZE THEN KEY_SIZE ELSE klen
    IN  CStr(Take(key, real_key_len))

\* The chain of slot index (0-based) of a bucket array.
Chain(hashes, index) == hashes[index + 1]

\* The comparison of _ol_get_bucket for one bucket.
GetMatches(bucket, key, klen) ==
    LET larger_key == IF bucket.klen > klen THEN bucket.klen ELSE klen
    IN  strncmp_eq(bucket.key, key, larger_key)

\* A lookup that compares the head of the chain and never follows next:
\* with it a put on a chained key adds a second record.
_ol_get_bucket_headonly(d, hash, key, klen) ==
    LET index == _ol_calc_idx(d.cur_ht_size, hash)
        chain == Chain(d.hashes, index)
    IN  IF chain # <<>> /\ GetMatches(chain[1], key, klen) THEN 1 ELSE 0

\* _ol_get_bucket: the position in the chain of its slot of the first
\* bucket matching the key, 0 for NULL.
_ol_get_bucket(d, hash, key, klen) ==
    LET index == _ol_calc_idx(d.cur_ht_size, hash)
        chain == Chain(d.hashes, index)
        hits  == { i \in 1..Len(chain) : GetMatches(chain[i], key, klen) }
    IN  IF hits = {} THEN 0
        ELSE CHOOSE i \in hits : \A j \in hits : i <= j

\* ol_unjar: the data of the bucket found, NULL when none is.
ol_unjar(d, key, klen) ==
    LET _key  == _ol_trunc(key, klen)
        _klen == Len(_key)
        hash  == MurmurHash3_x86_32(_key, _klen)
        pos   == _ol_get_bucket(d, hash, _key, _klen)
    IN  IF pos # 0
        THEN Chain(d.hashes, _ol_calc_idx(d.cur_ht_size, hash))[pos].data_ptr
        ELSE NULL

\* ol_content_type: the content type of the bucket found, NULL when none is.
\* NULL_CT: the null pointer it returns, which is no string.
NULL_CT == "(null pointer)"

ol_content_type(d, key, klen) ==
    LET _key  == _ol_trunc(key, klen)
        _klen == Len(_key)
        hash  == MurmurHash3_x86_32(_key, _klen)
        pos   == _ol_get_bucket(d, hash, _key, _klen)
    IN  IF pos # 0
        THEN Chain(d.hashes, _ol_calc_idx(d.cur_ht_size, hash))[pos].content_type
        ELSE NULL_CT

\* _ol_set_bucket: link the bucket after the last bucket of its slot.
_ol_set_bucket(d, bucket) ==
    LET index == _ol_calc_idx(d.cur_ht_size, bucket.hash)
        chain == Chain(d.hashes, index)
    IN  [d EXCEPT !.hashes[index + 1] = Append(chain, bucket),
                  !.key_collisions = IF chain # <<>> THEN @ + 1 ELSE @,
                  !.rcrd_cnt = @ + 1]

\* _ol_rehash_insert_bucket: link the head bucket of an old slot, with
\* everything still linked behind it, after the last bucket of its new slot.
_ol_rehash_insert_bucket(tmp_hashes, to_alloc, chain) ==
    LET new_index == _ol_calc_idx(to_alloc, chain[1].hash)
    IN  [tmp_hashes EXCEPT ![new_index + 1] = @ \o chain]

\* The loop of _ol_grow_and_rehash_db over old slots i .. iterations - 1.
RECURSIVE RehashFrom(_, _, _, _)
RehashFrom(d, tmp_hashes, to_alloc, i) ==
    IF i >= ol_ht_bucket_max(d.cur_ht_size) THEN tmp_hashes
    ELSE LET chain == Chain(d.hashes, i)
             next  == IF chain # <<>>
                      THEN _ol_rehash_insert_bucket(tmp_hashes, to_alloc, chain)
                      ELSE tmp_hashes
         IN  RehashFrom(d, next, to_alloc, i + 1)

\* A grow that allocates four times the current size instead of twice.
_ol_grow_and_rehash_db_quad(d, calloc_ok) ==
    LET to_alloc   == d.cur_ht_size * 4
        tmp_hashes == [i \in 1..ol_ht_bucket_max(to_alloc) |-> <<>>]
    IN  IF ~calloc_ok THEN [db |-> d, ret |-> -1]
        ELSE [db  |-> [d EXCEPT !.hashes = RehashFrom(d, tmp_hashes, to_alloc, 0),
                                !.cur_ht_size = to_alloc],
              ret |-> 0]

\* _ol_grow_and_rehash_db; calloc_ok says whether calloc returned memory.
_ol_grow_and_rehash_db(d, calloc_ok) ==
    LET to_alloc   == d.cur_ht_size * 2
        tmp_hashes == [i \in 1..ol_ht_bucket_max(to_alloc) |-> <<>>]
    IN  IF ~calloc_ok THEN [db |-> d, ret |-> -1]
        ELSE [db  |-> [d EXCEPT !.hashes = RehashFrom(d, tmp_hashes, to_alloc, 0),
                                !.cur_ht_size = to_alloc],
              ret |-> 0]

-----------------------------------------------------------------------------
(* Append-only log (src/aol.c is not part of the sources at hand) *)

\* ol_aol_write_cmd(db, cmd, bucket): the command record appended to the
\* log: the command token, the bucket's key and, for JAR, its content type
\* and its value.
ol_aol_write_cmd(cmd, bucket) ==
    IF cmd = "JAR"
    THEN [cmd |-> "JAR", key |-> bucket.key, klen |-> bucket.klen,
          ct |-> bucket.content_type, ctsize |-> bucket.ctype_size,
          value |-> bucket.data_ptr, vsize |-> bucket.data_size]
    ELSE [cmd |-> "SCOOP", key |-> bucket.key, klen |-> bucket.klen]

\* A guard that looks at the feature only: with it the replay of the log
\* appends to the log.
AolLogging_anystate(d) == OL_F_APPENDONLY \in d.feature_set

\* The guard oleg.c puts before every ol_aol_write_cmd.
AolLogging(d) == OL_F_APPENDONLY \in d.feature_set /\ d.state # OL_S_STARTUP

-----------------------------------------------------------------------------
(* Mutations *)

\* The bytes memcpy/strncpy take from the content type argument.
CtBytes(ct, ctsize) == IF ctsize = 0 THEN "" ELSE ct

\* _ol_jar. calloc_ok: whether the calloc of _ol_grow_and_rehash_db returns
\* memory. Result: the database, the return value, the commands appended to
\* the log, whether a bucket with the key was found, whether the table grew (with the database right after the grow)
\* and whether the buffers of an already released bucket were reallocated.
_ol_jar(d, key, klen, value, vsize, ct, ctsize, calloc_ok) ==
    LET _key   == _ol_trunc(key, klen)
        _klen  == Len(_key)
        hash   == MurmurHash3_x86_32(_key, _klen)
        index  == _ol_calc_idx(d.cur_ht_size, hash)
        pos    == _ol_get_bucket(d, hash, _key, _klen)
    IN  IF pos # 0
        THEN LET old     == Chain(d.hashes, index)[pos]
                 updated == [old EXCEPT !.klen = _klen,
                                        !.ctype_size = ctsize,
                                        !.content_type = CtBytes(ct, ctsize),
                                        !.data_size = vsize,
                                        !.data_ptr = Take(value, vsize)]
             IN  [db    |-> [d EXCEPT !.hashes[index + 1][pos] = updated],
                  ret   |-> 0,
                  log   |-> IF AolLogging(d)
                            THEN <<ol_aol_write_cmd("JAR", updated)>> ELSE <<>>,
                  found |-> TRUE,
                  grew  |-> FALSE,
                  grown |-> d,
                  stale |-> old.freed]
        ELSE LET new_bucket == [key |-> _key, klen |-> _klen, hash |-> hash,
                                data_size |-> vsize,
                                data_ptr |-> Take(value, vsize),
                                ctype_size |-> ctsize,
                                content_type |-> CtBytes(ct, ctsize),
                                freed |-> FALSE]
                 bucket_max == ol_ht_bucket_max(d.cur_ht_size)
                 grow       == d.rcrd_cnt > 0 /\ d.rcrd_cnt = bucket_max
                 \* a failed grow returns -1, which the test ret > 0 lets pass
                 d1         == IF grow
                               THEN _ol_grow_and_rehash_db(d, calloc_ok).db
                               ELSE d
             IN  [db    |-> _ol_set_bucket(d1, new_bucket),
                  ret   |-> 0,
                  log   |-> IF AolLogging(d)
                            THEN <<ol_aol_write_cmd("JAR", new_bucket)>> ELSE <<>>,
                  found |-> FALSE,
                  grew  |-> grow /\ calloc_ok,
                  grown |-> d1,
                  stale |-> FALSE]

\* ol_jar: _ol_jar with the default content type.
ol_jar(d, key, klen, value, vsize, calloc_ok) ==
    _ol_jar(d, key, klen, value, vsize, DefaultCt, DefaultCtSize, calloc_ok)

\* ol_jar_ct: _ol_jar with the caller's content type.
ol_jar_ct(d, key, klen, value, vsize, ct, content_type_size, calloc_ok) ==
    _ol_jar(d, key, klen, value, vsize, ct, content_type_size, calloc_ok)

\* What a later read of a released bucket sees: the bytes as they were, or
\* (clobbered) the key overwritten by the allocator's bookkeeping, which
\* reads as an empty string.
FreedImage(bucket, clobbered) ==
    IF clobbered THEN [bucket EXCEPT !.freed = TRUE, !.key = <<>>]
    ELSE [bucket EXCEPT !.freed = TRUE]

\* The position of the first bucket after the head that the loop of
\* ol_scoop matches (it compares klen bytes of the caller's key), 0 if none.
ScoopTailMatch(chain, key, klen) ==
    LET hits == { i \in 2..Len(chain) : strncmp_eq(chain[i].key, key, klen) }
    IN  IF hits = {} THEN 0
        ELSE CHOOSE i \in hits : \A j \in hits : i <= j

\* The chain without its element at position i.
RemoveAt(chain, i) == SubSeq(chain, 1, i - 1) \o SubSeq(chain, i + 1, Len(chain))

\* ol_scoop. clobbered: what the released bucket looks like if a link to
\* it survives (see FreedImage). Result: the database, the return value, the commands appended
\* to the log, and whether an already released bucket was released again.
ol_scoop(d, key, klen, clobbered) ==
    LET _key   == _ol_trunc(key, klen)
        _klen  == Len(_key)
        hash   == MurmurHash3_x86_32(_key, _klen)
        index  == _ol_calc_idx(d.cur_ht_size, hash)
        chain  == Chain(d.hashes, index)
        miss   == [db |-> d, ret |-> 2, log |-> <<>>, stale |-> FALSE]
    IN  IF chain = <<>> THEN miss
        ELSE IF strncmp_eq(chain[1].key, _key, _klen)
        THEN [db    |-> [d EXCEPT !.hashes[index + 1] = Tail(chain),
                                  !.rcrd_cnt = @ - 1],
              ret   |-> 0,
              log   |-> IF AolLogging(d)
                        THEN <<ol_aol_write_cmd("SCOOP", chain[1])>> ELSE <<>>,
              stale |-> chain[1].freed]
        ELSE LET i == ScoopTailMatch(chain, key, klen)
             IN  IF i = 0 THEN miss
                 ELSE [db    |-> [d EXCEPT
                                    !.hashes[index + 1] =
                                        IF i < Len(chain)
                                        THEN RemoveAt(chain, i)
                                        \* last->next keeps pointing at it
                                        ELSE [chain EXCEPT
                                                ![i] = FreedImage(@, clobbered)],
                                    !.rcrd_cnt = @ - 1],
                       ret   |-> 0,
                       log   |-> <<>>,
                       stale |-> chain[i].freed]

-----------------------------------------------------------------------------
(* Observations *)

\* The binding of every key as ol_unjar reports it.
Bindings(d) == [k \in Keys |-> ol_unjar(d, k, Len(k))]

\* The buckets reachable by walking all chains.
RECURSIVE ReachableFrom(_, _)
ReachableFrom(hashes, i) ==
    IF i > Len(hashes) THEN <<>> ELSE hashes[i] \o ReachableFrom(hashes, i + 1)
Reachable(d) == ReachableFrom(d.hashes, 1)

\* lastOp.found: the jar found a bucket with its key and updated it.
\* lastOp.ct, ctsize: the content type arguments of an ol_jar_ct.
\* lastOp.emitted: the call reached ol_aol_write_cmd.
NoOp == [op |-> "none", key |-> <<>>, value |-> <<>>, ret |-> 0,
         found |-> FALSE, ct |-> "", ctsize |-> 0, emitted |-> FALSE]
\* A process that is not inside ol_save_db.
Idle == [pid |-> -1]
\* obs.grew, pre, post: the last step grew the bucket array, from pre to post.
\* obs.saver: the process whose ol_save_db returned in the last step.
NoObs == [grew |-> FALSE, pre |-> NoDb, post |-> NoDb, saver |-> Idle]

\* obs after a jar with result r that found the store in state d.
JarObs(d, r) ==
    IF r.grew THEN [NoObs EXCEPT !.grew = TRUE, !.pre = d, !.post = r.grown]
    ELSE NoObs

\* hist.distinct: the store was opened with nothing to replay and every call
\*   since was a jar of a key not yet jarred; hist.puts: those (key, value)s.
\* hist.logged: every mutation so far happened with APPEND_ONLY enabled.
\* hist.at_close: ol_unjar's view of the index at the last ol_close (its
\*   reads are defined only when no released bucket is still linked).
\* hist.opens: calls of ol_open so far.
NoBindings == [k \in Keys |-> <<-2>>]
NoHist == [distinct |-> FALSE, puts |-> {}, logged |-> TRUE,
           at_close |-> NoBindings, opens |-> 0,
           snaps |-> {}, saves |-> 0, loads |-> 0, io_failed |-> FALSE,
           saved |-> NoDb]

\* hist after a jar of (key, value) that found the store in state d.
HistJar(d, key, value) ==
    [hist EXCEPT
        !.distinct = @ /\ key \notin { p[1] : p \in hist.puts },
        !.puts     = IF hist.distinct /\ key \notin { p[1] : p \in hist.puts }
                     THEN @ \cup {<<key, value>>} ELSE {},
        !.logged   = @ /\ OL_F_APPENDONLY \in d.feature_set]

\* hist after a scoop that found the store in state d.
HistScoop(d) ==
    [hist EXCEPT !.distinct = FALSE, !.puts = {},
                 !.logged = @ /\ OL_F_APPENDONLY \in d.feature_set]

-----------------------------------------------------------------------------
(* The parent process *)

Init ==
    /\ db = NoDb
    /\ pc = "closed"
    /\ aol_file = <<>>
    /\ aol_pos = 0
    /\ inodes = <<>>
    /\ tmp_ino = 0
    /\ dump_ino = 0
    /\ savers = [i \in 1..MaxSaves |-> Idle]
    /\ lastOp = NoOp
    /\ obs = NoObs
    /\ hist = NoHist
    /\ nops = 0

\* The ol_database ol_open builds before it looks at the features.
NewDb(features) ==
    [hashes         |-> [i \in 1..ol_ht_bucket_max(HASH_MALLOC) |-> <<>>],
     cur_ht_size    |-> HASH_MALLOC,
     rcrd_cnt       |-> 0,
     key_collisions |-> 0,
     aolfd          |-> 0,
     feature_set    |-> features,
     state          |-> OL_S_STARTUP]

\* ol_aol_init: open the log for appending.
ol_aol_init(d) == [d EXCEPT !.aolfd = 1]

\* ol_open, up to the replay of the log when APPEND_ONLY is set.
ol_open(features) ==
    /\ pc \in {"closed", "crashed"}
    /\ hist.opens < MaxOpens
    /\ IF OL_F_APPENDONLY \in features
       THEN /\ db' = ol_aol_init(NewDb(features))
            /\ pc' = "restore"
       ELSE /\ db' = [NewDb(features) EXCEPT !.state = OL_S_AOKAY]
            /\ pc' = "ready"
    /\ aol_pos' = 0
    /\ lastOp' = [NoOp EXCEPT !.op = "open"]
    /\ obs' = NoObs
    /\ hist' = [hist EXCEPT
                  !.opens = @ + 1,
                  !.distinct = OL_F_APPENDONLY \notin features \/ aol_file = <<>>,
                  !.puts = {}]
    /\ UNCHANGED <<aol_file, inodes, tmp_ino, dump_ino, savers, nops>>

\* ol_aol_restore, one command of the log: the same entry points the
\* callers use, in file order.
RestoreStep ==
    /\ pc = "restore"
    /\ aol_pos < Len(aol_file)
    /\ LET c == aol_file[aol_pos + 1]
       IN  \/ /\ c.cmd = "JAR"
              /\ LET r == _ol_jar(db, c.key, c.klen, c.value, c.vsize,
                                  c.ct, c.ctsize, TRUE)
                 IN  /\ db' = r.db /\ obs' = JarObs(db, r)
                     /\ aol_file' = aol_file \o r.log
           \/ /\ c.cmd = "SCOOP"
              /\ \E clobbered \in BOOLEAN :
                    LET r == ol_scoop(db, c.key, c.klen, clobbered)
                    IN  /\ db' = r.db
                        /\ aol_file' = aol_file \o r.log
              /\ obs' = NoObs
    /\ aol_pos' = aol_pos + 1
    /\ lastOp' = [NoOp EXCEPT !.op = "restore"]
    /\ UNCHANGED <<pc, inodes, tmp_ino, dump_ino, savers, hist, nops>>


\* A frame of the log the reader cannot parse: a record cut short.
BadFrame == [cmd |-> "BAD"]

\* ol_aol_restore meets a frame it cannot parse and stops. What it returns
\* then is not in the sources at hand: 0, and ol_open goes on to AOKAY, or
\* an error, and the check of ol_open returns NULL (no store).
RestoreBadFrame ==
    /\ pc = "restore"
    /\ aol_pos < Len(aol_file)
    /\ aol_file[aol_pos + 1] = BadFrame
    /\ \E ret \in {0, -1} :
          IF ret = 0
          THEN /\ db' = [db EXCEPT !.state = OL_S_AOKAY]
               /\ pc' = "ready"
               /\ lastOp' = [NoOp EXCEPT !.op = "restored"]
          ELSE /\ db' = NoDb
               /\ pc' = "closed"
               /\ lastOp' = [NoOp EXCEPT !.op = "open_failed", !.ret = -1]
    /\ obs' = [NoObs EXCEPT !.pre = db]
    /\ UNCHANGED <<aol_file, aol_pos, inodes, tmp_ino, dump_ino, savers, hist, nops>>

\* ol_open, after the replay: the store comes up.
RestoreDone ==
    /\ pc = "restore"
    /\ aol_pos = Len(aol_file)
    /\ db' = [db EXCEPT !.state = OL_S_AOKAY]
    /\ pc' = "ready"
    /\ lastOp' = [NoOp EXCEPT !.op = "restored"]
    /\ obs' = NoObs
    /\ UNCHANGED <<aol_file, aol_pos, inodes, tmp_ino, dump_ino, savers, hist, nops>>

\* The parent is not inside ol_save_db.
ParentIdle == \A i \in DOMAIN savers : savers[i].pid # 0

\* The log of the model has room for the command a jar appends.
LogRoom(d) == OL_F_APPENDONLY \in d.feature_set => Len(aol_file) < MaxLog

\* Where the process stands after a call: releasing a bucket that was
\* already released is undefined, the allocator may abort the process.
AfterCall(stale) == IF stale THEN {"ready", "crashed"} ELSE {"ready"}

\* ol_aol_write_cmd is handed a database whose aolfd is still the 0 that
\* ol_open assigned: a write through a null FILE pointer is undefined, the
\* process may stop, and nothing reaches the log.
NullHandle(d, log) == log # <<>> /\ d.aolfd = 0

\* The log after a call that emitted the commands log.
AolAppend(d, log) == IF NullHandle(d, log) THEN aol_file ELSE aol_file \o log

\* ol_jar(db, key, klen, value, vsize), at most limit calls into the run.
JarCall(key, value, calloc_ok, limit) ==
    /\ pc = "ready" /\ ParentIdle
    /\ nops < limit /\ LogRoom(db)
    /\ LET r == ol_jar(db, key, Len(key), value, Len(value), calloc_ok)
       IN  /\ \E next \in AfterCall(r.stale \/ NullHandle(db, r.log)) :
                 /\ pc' = next
                 /\ db' = IF next = "crashed" THEN NoDb ELSE r.db
           /\ aol_file' = AolAppend(db, r.log)
           /\ lastOp' = [NoOp EXCEPT !.op = "jar", !.key = key,
                                      !.value = value, !.ret = r.ret,
                                      !.found = r.found,
                                      !.emitted = r.log # <<>>]
           /\ obs' = JarObs(db, r)
    /\ hist' = HistJar(db, key, value)
    /\ nops' = nops + 1
    /\ UNCHANGED <<aol_pos, inodes, tmp_ino, dump_ino, savers>>

\* ol_jar_ct(db, key, klen, value, vsize, content_type, content_type_size),
\* at most limit calls into the run.
JarCtCall(key, value, ct, ctsize, limit) ==
    /\ pc = "ready" /\ ParentIdle
    /\ nops < limit /\ LogRoom(db)
    /\ LET r == ol_jar_ct(db, key, Len(key), value, Len(value), ct, ctsize,
                          TRUE)
       IN  /\ \E next \in AfterCall(r.stale \/ NullHandle(db, r.log)) :
                 /\ pc' = next
                 /\ db' = IF next = "crashed" THEN NoDb ELSE r.db
           /\ aol_file' = AolAppend(db, r.log)
           /\ lastOp' = [NoOp EXCEPT !.op = "jar_ct", !.key = key,
                                      !.value = value, !.ret = r.ret,
                                      !.found = r.found, !.ct = ct,
                                      !.ctsize = ctsize,
                                      !.emitted = r.log # <<>>]
           /\ obs' = JarObs(db, r)
    /\ hist' = HistJar(db, key, value)
    /\ nops' = nops + 1
    /\ UNCHANGED <<aol_pos, inodes, tmp_ino, dump_ino, savers>>

\* ol_jar with memory at hand.
Jar(key, value) == JarCall(key, value, TRUE, MaxOps)

\* ol_jar of a new key into a full table when calloc has no memory for the
\* larger bucket array.
JarNoMem(key, value) ==
    /\ pc = "ready"
    /\ db.rcrd_cnt > 0 /\ db.rcrd_cnt = ol_ht_bucket_max(db.cur_ht_size)
    /\ ol_unjar(db, key, Len(key)) = NULL
    /\ JarCall(key, value, FALSE, MaxOps)

\* ol_scoop(db, key, klen), at most limit calls into the run.
ScoopCall(key, limit) ==
    /\ pc = "ready" /\ ParentIdle
    /\ nops < limit
    /\ \E clobbered \in BOOLEAN :
          LET r == ol_scoop(db, key, Len(key), clobbered)
          IN  /\ \E next \in AfterCall(r.stale \/ NullHandle(db, r.log)) :
                    /\ pc' = next
                    /\ db' = IF next = "crashed" THEN NoDb ELSE r.db
              /\ aol_file' = AolAppend(db, r.log)
              /\ lastOp' = [NoOp EXCEPT !.op = "scoop", !.key = key,
                                         !.ret = r.ret,
                                         !.emitted = r.log # <<>>]
    /\ obs' = NoObs
    /\ hist' = HistScoop(db)
    /\ nops' = nops + 1
    /\ UNCHANGED <<aol_pos, inodes, tmp_ino, dump_ino, savers>>

Scoop(key) == ScoopCall(key, MaxOps)

\* The process dies inside ol_aol_write_cmd, in the middle of a jar or a
\* scoop: a record cut short is left at the end of the log.
TornWrite ==
    /\ pc = "ready" /\ ParentIdle
    /\ nops < MaxOps /\ LogRoom(db)
    /\ AolLogging(db)
    /\ \A i \in DOMAIN aol_file : aol_file[i] # BadFrame
    /\ aol_file' = Append(aol_file, BadFrame)
    /\ pc' = "crashed"
    /\ db' = NoDb
    /\ lastOp' = [NoOp EXCEPT !.op = "torn_write"]
    /\ obs' = NoObs
    /\ hist' = [hist EXCEPT !.distinct = FALSE, !.puts = {}]
    /\ nops' = nops + 1
    /\ UNCHANGED <<aol_pos, inodes, tmp_ino, dump_ino, savers>>

\* _ol_close: the number of buckets released against rcrd_cnt.
_ol_close(d) == IF Len(Reachable(d)) # d.rcrd_cnt THEN 1 ELSE 0

\* ol_close(db)
Close ==
    /\ pc = "ready" /\ ParentIdle
    /\ pc' \in IF \E b \in Range(Reachable(db)) : b.freed
               THEN {"closed", "crashed"} ELSE {"closed"}
    /\ db' = NoDb
    /\ lastOp' = [NoOp EXCEPT !.op = "close", !.ret = _ol_close(db)]
    /\ obs' = NoObs
    /\ hist' = [hist EXCEPT !.distinct = FALSE, !.puts = {},
                            !.at_close =
                                IF \E b \in Range(Reachable(db)) : b.freed
                                THEN NoBindings ELSE Bindings(db)]
    /\ UNCHANGED <<aol_file, aol_pos, inodes, tmp_ino, dump_ino, savers, nops>>

\* _ol_enable, _ol_disable: set and clear a feature flag.
_ol_enable(feature, feature_set) == feature_set \cup {feature}
_ol_disable(feature, feature_set) == feature_set \ {feature}

\* db->enable(OL_F_APPENDONLY, &db->feature_set) on a store without the flag.
Enable ==
    /\ pc = "ready" /\ ParentIdle
    /\ OL_F_APPENDONLY \notin db.feature_set
    /\ db' = [db EXCEPT !.feature_set = _ol_enable(OL_F_APPENDONLY, @)]
    /\ lastOp' = [NoOp EXCEPT !.op = "enable"]
    /\ obs' = NoObs
    /\ UNCHANGED <<pc, aol_file, aol_pos, inodes, tmp_ino, dump_ino, savers,
                   hist, nops>>

\* db->disable(OL_F_APPENDONLY, &db->feature_set) on a store with the flag.
Disable ==
    /\ pc = "ready" /\ ParentIdle
    /\ OL_F_APPENDONLY \in db.feature_set
    /\ db' = [db EXCEPT !.feature_set = _ol_disable(OL_F_APPENDONLY, @)]
    /\ lastOp' = [NoOp EXCEPT !.op = "disable"]
    /\ obs' = NoObs
    /\ UNCHANGED <<pc, aol_file, aol_pos, inodes, tmp_ino, dump_ino, savers,
                   hist, nops>>

\* The index: a store opened without features.
Next ==
    \/ ol_open({})
    \/ \E key \in Keys, value \in Values : Jar(key, value)
    \/ \E key \in Keys, value \in Values : JarNoMem(key, value)
    \/ \E key \in Keys : Scoop(key)

Spec == Init /\ [][Next]_vars

\* Two grows: enough jars and scoops of one value to fill the table twice,
\* with and without memory for the larger bucket array.
NextGrow ==
    \/ ol_open({})
    \/ \E key \in Keys, value \in DumpValues :
          JarCall(key, value, TRUE, MaxGrowOps)
    \/ \E key \in Keys, value \in DumpValues :
          /\ pc = "ready"
          /\ db.rcrd_cnt = ol_ht_bucket_max(db.cur_ht_size)
          /\ ol_unjar(db, key, Len(key)) = NULL
          /\ JarCall(key, value, FALSE, MaxGrowOps)
    \/ \E key \in Keys : ScoopCall(key, MaxGrowOps)

SpecGrow == Init /\ [][NextGrow]_vars

\* Long keys and content types: jars of keys up to KEY_SIZE + 1 bytes, with
\* and without a content type, and scoops.
NextKeys ==
    \/ ol_open({})
    \/ \E key \in LongKeys, value \in Values :
          JarCall(key, value, TRUE, MaxKeyOps)
    \/ \E key \in LongKeys, value \in DumpValues, c \in ContentTypes :
          JarCtCall(key, value, c[1], c[2], MaxKeyOps)
    \/ \E key \in DumpKeys : ScoopCall(key, MaxKeyOps)

SpecKeys == Init /\ [][NextKeys]_vars

\* The append-only log: a store opened with APPEND_ONLY, closed and reopened.
NextAol ==
    \/ ol_open({OL_F_APPENDONLY})
    \/ RestoreStep
    \/ RestoreBadFrame
    \/ RestoreDone
    \/ \E key \in Keys, value \in Values : Jar(key, value)
    \/ \E key \in Keys : Scoop(key)
    \/ TornWrite
    \/ Close

SpecAol == Init /\ [][NextAol]_vars

\* The feature flag: stores opened with and without APPEND_ONLY, the flag
\* set and cleared between jars and scoops.
NextFlags ==
    \/ ol_open({})
    \/ ol_open({OL_F_APPENDONLY})
    \/ RestoreStep
    \/ RestoreDone
    \/ Enable
    \/ Disable
    \/ \E key \in Keys, value \in DumpValues :
          JarCall(key, value, TRUE, MaxFlagOps)
    \/ \E key \in Keys : ScoopCall(key, MaxFlagOps)
    \/ Close

SpecFlags == Init /\ [][NextFlags]_vars

-----------------------------------------------------------------------------
(* Dump files (src/src/dump.c) *)

\* DUMP_SIG and DUMP_VERSION as ol_save_db prints them into the header.
DUMP_SIG == "OLEG"
DumpVersionText == "0001"

\* The key array of a bucket as fwrite sees it: KEY_SIZE bytes, the key
\* followed by 0 bytes (strncpy pads).
KeyArray(key) == key \o [i \in 1..(KEY_SIZE - Len(key)) |-> 0]

\* struct dump_header as ol_save_db fills it.
DumpHeader(d) ==
    [item |-> "header", sig |-> DUMP_SIG, version |-> DumpVersionText,
     rcrd_cnt |-> d.rcrd_cnt]

\* What _ol_write_bucket writes for one bucket: key, data_size, data.
DumpRecord(bucket) ==
    [item |-> "record", key |-> KeyArray(bucket.key),
     data_size |-> bucket.data_size, data |-> bucket.data_ptr]

\* A gap left in a file by a write past its end.
Hole == [item |-> "hole"]

\* The file ol_save_db writes for database d when every write succeeds:
\* the header, then the buckets in bucket-array order, chain by chain.
DumpImage(d) ==
    <<DumpHeader(d)>> \o [i \in 1..Len(Reachable(d)) |-> DumpRecord(Reachable(d)[i])]

\* write(2) of one item at offset off of a file.
WriteAt(content, off, item) ==
    IF off < Len(content) THEN [content EXCEPT ![off + 1] = item]
    ELSE content \o [i \in 1..(off - Len(content)) |-> Hole] \o <<item>>

\* The content of the live dump file, <<>> when there is none.
DumpContent == IF dump_ino = 0 THEN <<>> ELSE inodes[dump_ino]

\* A process entering ol_save_db with database d: where it stands (at),
\* its descriptor's inode and offset, the buckets written so far (k);
\* failed and dump0 observe whether one of its writes failed and what the
\* live dump held when it entered.
NewSaver(pid, d) ==
    [pid |-> pid, snap |-> d, at |-> "fopen", fd |-> 0, off |-> 0, k |-> 0,
     failed |-> FALSE, dump0 |-> DumpContent]

FreeSlots == { i \in DOMAIN savers : savers[i] = Idle }
Active == { i \in DOMAIN savers : savers[i] # Idle }

\* hist.snaps: the databases handed to ol_save_db so far.
\* hist.io_failed: some write step of some save has failed.
\* hist.saves, hist.loads: calls of ol_save_db and of ol_load_db so far.
\* hist.saved: the database of the last ol_save_db that returned 0.
HistSave(d) == [hist EXCEPT !.distinct = FALSE, !.puts = {},
                            !.snaps = @ \cup {d}, !.saves = @ + 1]

\* ol_save_db(db) called by the parent, which stays inside until it returns.
Save ==
    /\ pc = "ready" /\ ParentIdle
    /\ hist.saves < MaxSaves
    /\ FreeSlots # {}
    /\ LET i == CHOOSE j \in FreeSlots : \A m \in FreeSlots : j <= m
       IN  savers' = [savers EXCEPT ![i] = NewSaver(0, db)]
    /\ lastOp' = [NoOp EXCEPT !.op = "save"]
    /\ obs' = NoObs
    /\ hist' = HistSave(db)
    /\ UNCHANGED <<db, pc, aol_file, aol_pos, inodes, tmp_ino, dump_ino, nops>>

\* ol_background_save(db): fork; the child, a copy of the parent, calls
\* ol_save_db and exits, the parent returns 0 (-1 when fork fails).
ol_background_save(fork_ok) ==
    /\ pc = "ready" /\ ParentIdle
    /\ hist.saves < MaxSaves
    /\ FreeSlots # {}
    /\ IF fork_ok
       THEN /\ LET i == CHOOSE j \in FreeSlots : \A m \in FreeSlots : j <= m
               IN  savers' = [savers EXCEPT ![i] = NewSaver(i, db)]
            /\ hist' = HistSave(db)
            /\ lastOp' = [NoOp EXCEPT !.op = "background_save"]
       ELSE /\ UNCHANGED savers
            /\ hist' = [hist EXCEPT !.distinct = FALSE, !.puts = {}]
            /\ lastOp' = [NoOp EXCEPT !.op = "background_save", !.ret = -1]
    /\ obs' = NoObs
    /\ UNCHANGED <<db, pc, aol_file, aol_pos, inodes, tmp_ino, dump_ino, nops>>

\* The error exit of ol_save_db: unlink(tmpfile), return -1.
SaveError(i) ==
    /\ tmp_ino' = 0
    /\ savers' = [savers EXCEPT ![i] = Idle]
    /\ lastOp' = [NoOp EXCEPT !.op = "save_return", !.ret = -1]
    /\ obs' = [NoObs EXCEPT !.saver = [savers[i] EXCEPT !.failed = TRUE]]
    /\ UNCHANGED dump_ino

\* ol_save_db, fopen(tmpfile, "w+"): create the file or truncate it.
SaveOpen(i, io_ok) ==
    /\ i \in Active /\ savers[i].at = "fopen"
    /\ IF io_ok
       THEN /\ IF tmp_ino = 0
               THEN /\ inodes' = Append(inodes, <<>>)
                    /\ tmp_ino' = Len(inodes) + 1
               ELSE /\ inodes' = [inodes EXCEPT ![tmp_ino] = <<>>]
                    /\ UNCHANGED tmp_ino
            /\ savers' = [savers EXCEPT ![i].at = "header", ![i].fd = tmp_ino']
            /\ lastOp' = [NoOp EXCEPT !.op = "save_step"]
            /\ obs' = NoObs
            /\ UNCHANGED <<dump_ino, hist>>
       ELSE /\ SaveError(i)
            /\ hist' = [hist EXCEPT !.io_failed = TRUE]
            /\ UNCHANGED inodes
    /\ UNCHANGED <<db, pc, aol_file, aol_pos, nops>>

\* ol_save_db, fwrite of the header, checked.
SaveHeader(i, io_ok) ==
    /\ i \in Active /\ savers[i].at = "header"
    /\ LET p == savers[i]
       IN  IF io_ok
           THEN /\ inodes' = [inodes EXCEPT
                                ![p.fd] = WriteAt(@, p.off, DumpHeader(p.snap))]
                /\ savers' = [savers EXCEPT ![i].at = "buckets",
                                            ![i].off = p.off + 1]
                /\ lastOp' = [NoOp EXCEPT !.op = "save_step"]
                /\ obs' = NoObs
                /\ UNCHANGED <<tmp_ino, dump_ino, hist>>
           ELSE /\ SaveError(i)
                /\ hist' = [hist EXCEPT !.io_failed = TRUE]
                /\ UNCHANGED inodes
    /\ UNCHANGED <<db, pc, aol_file, aol_pos, nops>>

\* ol_save_db, _ol_write_bucket for the next linked bucket: three fwrite
\* calls whose results nobody looks at.
SaveBucket(i, io_ok) ==
    /\ i \in Active /\ savers[i].at = "buckets"
    /\ LET p == savers[i]
       IN  /\ p.k < Len(Reachable(p.snap))
           /\ IF io_ok
              THEN /\ inodes' = [inodes EXCEPT ![p.fd] =
                            WriteAt(@, p.off, DumpRecord(Reachable(p.snap)[p.k + 1]))]
                   /\ savers' = [savers EXCEPT ![i].k = p.k + 1,
                                               ![i].off = p.off + 1]
                   /\ UNCHANGED hist
              ELSE /\ savers' = [savers EXCEPT ![i].k = p.k + 1,
                                               ![i].failed = TRUE]
                   /\ hist' = [hist EXCEPT !.io_failed = TRUE]
                   /\ UNCHANGED inodes
    /\ lastOp' = [NoOp EXCEPT !.op = "save_step"]
    /\ obs' = NoObs
    /\ UNCHANGED <<db, pc, aol_file, aol_pos, tmp_ino, dump_ino, nops>>

\* ol_save_db, fflush and fclose, unchecked, then rename(tmpfile,
\* dump_file), checked: it fails when io_ok is FALSE or the name is gone.
SaveRename(i, io_ok) ==
    /\ i \in Active /\ savers[i].at = "buckets"
    /\ LET p == savers[i]
       IN  /\ p.k = Len(Reachable(p.snap))
           /\ IF io_ok /\ tmp_ino # 0
              THEN /\ dump_ino' = tmp_ino
                   /\ tmp_ino' = 0
                   /\ savers' = [savers EXCEPT ![i] = Idle]
                   /\ lastOp' = [NoOp EXCEPT !.op = "save_return", !.ret = 0]
                   /\ obs' = [NoObs EXCEPT !.saver = p]
                   /\ hist' = [hist EXCEPT !.saved = p.snap]
              ELSE /\ SaveError(i)
                   /\ hist' = [hist EXCEPT !.io_failed = @ \/ ~io_ok]
    /\ UNCHANGED <<db, pc, aol_file, aol_pos, inodes, nops>>

\* What the buffers of _ol_store_bin_object can hold when the file ends
\* before the record (fread fills nothing and its result is not checked):
\* a key and a value, or a value_size calloc cannot serve.
NoMem == [key |-> <<>>, value |-> <<>>, nomem |-> TRUE]
Garbage ==
    { [key |-> KeyArray(k), value |-> v, nomem |-> FALSE] :
          k \in DumpKeys, v \in DumpValues } \cup {NoMem}

\* _ol_store_bin_object for the item at position k of the file: the key
\* and the value handed to ol_jar. A hole reads as 0 bytes.
StoredObject(content, k, garbage) ==
    IF k > Len(content) THEN garbage
    ELSE IF content[k].item = "record"
    THEN [key |-> content[k].key, value |-> content[k].data, nomem |-> FALSE]
    ELSE [key |-> KeyArray(<<>>), value |-> <<>>, nomem |-> FALSE]

\* The loop of ol_load_db over records i .. rcrd_cnt - 1 of the header.
\* The call of ol_jar in _ol_store_bin_object passes no key length; the
\* key is taken to be the C string in the KEY_SIZE bytes read.
RECURSIVE LoadFrom(_, _, _, _, _)
LoadFrom(d, content, rcrd_cnt, i, garbage) ==
    IF i >= rcrd_cnt THEN [db |-> d, ret |-> 0]
    ELSE LET o == StoredObject(content, i + 2, garbage)
         IN  IF o.nomem THEN [db |-> d, ret |-> -1]
             ELSE LoadFrom(ol_jar(d, o.key, KEY_SIZE, o.value, Len(o.value), TRUE).db,
                           content, rcrd_cnt, i + 1, garbage)

\* ol_load_db(db, filename): fd_ok says whether fopen found the file,
\* content is what the file holds, header what the header buffer holds
\* after fread.
ol_load_db(d, fd_ok, content, header, garbage) ==
    IF ~fd_ok THEN [db |-> d, ret |-> -1]
    ELSE IF header.sig # DUMP_SIG THEN [db |-> d, ret |-> -1]
    ELSE IF header.version # DumpVersionText THEN [db |-> d, ret |-> -1]
    ELSE LoadFrom(d, content, header.rcrd_cnt, 0, garbage)

\* What fread can leave in the header buffer: the header of the file (0
\* bytes for a hole), or, when the file is empty, whatever the memory held
\* (bytes that fail the signature test, or the header an earlier
\* ol_save_db left there).
ZeroHeader == [item |-> "header", sig |-> "", version |-> "", rcrd_cnt |-> 0]
HeadersRead(content) ==
    IF content = <<>>
    THEN {ZeroHeader} \cup { DumpHeader(d) : d \in hist.snaps }
    ELSE IF content[1].item = "header" THEN {content[1]}
    ELSE {ZeroHeader}

\* ol_load_db(db, db->dump_file)
Load ==
    /\ pc = "ready" /\ ParentIdle
    /\ hist.loads < MaxLoads
    /\ LET fd_ok == dump_ino # 0
           content == DumpContent
       IN  \E header \in (IF fd_ok THEN HeadersRead(content) ELSE {ZeroHeader}) :
           \E garbage \in (IF fd_ok /\ header.rcrd_cnt + 1 > Len(content)
                           THEN Garbage ELSE {NoMem}) :
              LET r == ol_load_db(db, fd_ok, content, header, garbage)
              IN  /\ db' = r.db
                  /\ lastOp' = [NoOp EXCEPT !.op = "load", !.ret = r.ret]
    /\ obs' = [NoObs EXCEPT !.pre = db]
    /\ hist' = [hist EXCEPT !.distinct = FALSE, !.puts = {}, !.loads = @ + 1]
    /\ UNCHANGED <<pc, aol_file, aol_pos, inodes, tmp_ino, dump_ino, savers, nops>>

\* The outcomes of an I/O call: it succeeds, or it fails (one failure is
\* explored in a run).
IoOutcomes == IF hist.io_failed THEN {TRUE} ELSE BOOLEAN

\* Saves and loads: a store opened without features, jars and scoops,
\* foreground saves step by step, close, reopen and load.
NextDump ==
    \/ ol_open({})
    \/ \E key \in DumpKeys, value \in DumpValues :
          JarCall(key, value, TRUE, MaxDumpOps)
    \/ \E key \in DumpKeys : ScoopCall(key, MaxDumpOps)
    \/ Close
    \/ Save
    \/ \E i \in 1..MaxSaves, io_ok \in IoOutcomes : SaveOpen(i, io_ok)
    \/ \E i \in 1..MaxSaves, io_ok \in IoOutcomes : SaveHeader(i, io_ok)
    \/ \E i \in 1..MaxSaves, io_ok \in IoOutcomes : SaveBucket(i, io_ok)
    \/ \E i \in 1..MaxSaves, io_ok \in IoOutcomes : SaveRename(i, io_ok)
    \/ Load

SpecDump == Init /\ [][NextDump]_vars

\* Background saves: the parent jars and scoops while children of
\* ol_background_save, and its own ol_save_db, take their steps in any
\* order.
NextBg ==
    \/ ol_open({})
    \/ \E key \in BgKeys, value \in DumpValues :
          JarCall(key, value, TRUE, MaxBgOps)
    \/ \E key \in BgKeys : ScoopCall(key, MaxBgOps)
    \/ Save
    \/ \E fork_ok \in BOOLEAN : ol_background_save(fork_ok)
    \/ \E i \in 1..MaxSaves, io_ok \in IoOutcomes : SaveOpen(i, io_ok)
    \/ \E i \in 1..MaxSaves, io_ok \in IoOutcomes : SaveHeader(i, io_ok)
    \/ \E i \in 1..MaxSaves, io_ok \in IoOutcomes : SaveBucket(i, io_ok)
    \/ \E i \in 1..MaxSaves, io_ok \in IoOutcomes : SaveRename(i, io_ok)

SpecBg == Init /\ [][NextBg]_vars

-----------------------------------------------------------------------------
(* Claims about the index, checked under Spec *)

\* C1: after jars of pairwise distinct keys into a freshly opened store,
\* ol_unjar returns for every key the value jarred with it, and rcrd_cnt is
\* the number of keys.
C1_DistinctPutsRetrievable ==
    (pc = "ready" /\ hist.distinct) =>
        /\ \A p \in hist.puts : ol_unjar(db, p[1], Len(p[1])) = p[2]
        /\ db.rcrd_cnt = Cardinality(hist.puts)

C3_ScoopUnlinks ==
    [][ (lastOp'.op = "scoop" /\ lastOp'.ret = 0 /\ pc' = "ready") =>
          /\ Len(Reachable(db')) = Len(Reachable(db)) - 1
          /\ \A b \in Range(Reachable(db')) : b.freed =>
                \E c \in Range(Reachable(db)) : c.freed
          /\ ol_unjar(db', lastOp'.key, Len(lastOp'.key)) = NULL
          /\ db'.rcrd_cnt = db.rcrd_cnt - 1 ]_vars

\* C4: ol_unjar returns for every key the same result right after a grow
\* as right before it.
C4_GrowPreservesBindings ==
    obs.grew => Bindings(obs.post) = Bindings(obs.pre)

-----------------------------------------------------------------------------
(* Claims about the append-only log, checked under SpecAol *)

\* C5: the index that ol_open rebuilds from the log binds every key as the
\* index did when the store was closed.
C5_AolRoundTrip ==
    (pc = "ready" /\ lastOp.op = "restored" /\ hist.logged
        /\ hist.at_close # NoBindings)
    => Bindings(db) = hist.at_close

\* C6: with APPEND_ONLY enabled and the store up, every successful jar
\* appends exactly one JAR command carrying its key and value, and every
\* successful scoop exactly one SCOOP command.
C6_EveryMutationLogged ==
    [][ (lastOp'.op \in {"jar", "scoop"} /\ lastOp'.ret = 0 /\ pc' = "ready"
            /\ AolLogging(db)) =>
          /\ Len(aol_file') = Len(aol_file) + 1
          /\ SubSeq(aol_file', 1, Len(aol_file)) = aol_file
          /\ LET c == aol_file'[Len(aol_file')]
             IN  IF lastOp'.op = "jar"
                 THEN /\ c.cmd = "JAR"
                      /\ c.key = _ol_trunc(lastOp'.key, Len(lastOp'.key))
                      /\ c.value = lastOp'.value
                 ELSE c.cmd = "SCOOP" ]_vars

-----------------------------------------------------------------------------
(* Claims about dump files, checked under SpecDump and SpecBg *)

\* C7: dump round trip. When a save of database S has returned 0 with no
\* I/O call failing and no freed bucket in S, and the dump is then loaded
\* into an empty index, the load returns 0 and get observes the same
\* key -> value bindings in the loaded index as in S.
C7_DumpRoundTrip ==
    (/\ pc = "ready" /\ lastOp.op = "load"
     /\ obs.pre # NoDb /\ obs.pre.rcrd_cnt = 0 /\ Reachable(obs.pre) = <<>>
     /\ hist.saved # NoDb
     /\ \A b \in Range(Reachable(hist.saved)) : ~b.freed
     /\ ~hist.io_failed)
    => /\ lastOp.ret = 0
       /\ Bindings(db) = Bindings(hist.saved)

\* C8: when a write step of a save has failed (fopen, the header, a
\* record, or the rename), the save returns -1, the temp file is unlinked
\* and the live dump holds what it held when the save began.
C8_FailedSaveLeavesDump ==
    (lastOp.op = "save_return" /\ obs.saver.pid # -1 /\ obs.saver.failed)
    => /\ lastOp.ret = -1
       /\ tmp_ino = 0
       /\ DumpContent = obs.saver.dump0

\* C9: snapshot isolation of background saves. When the child of an
\* ol_background_save returns 0 from ol_save_db, the live dump is the
\* serialization of the index as it was when ol_background_save was called.
C9_BackgroundSnapshot ==
    (lastOp.op = "save_return" /\ lastOp.ret = 0 /\ obs.saver.pid > 0)
    => DumpContent = DumpImage(obs.saver.snap)

\* C10: all-or-nothing installation. As long as no I/O call has failed,
\* the live dump is at every moment absent or the complete serialization
\* of one index state handed to ol_save_db, also when saves overlap.
C10_AllOrNothing ==
    (~hist.io_failed /\ dump_ino # 0)
    => \E S \in hist.snaps : DumpContent = DumpImage(S)

-----------------------------------------------------------------------------
(* Claims about key comparison, content types and loading *)

\* C11: delete uses the key equality of get. For an ol_scoop of key k on an
\* index with no released bucket linked: it returns 0 exactly when ol_unjar
\* finds k; then the linked buckets are those of before without one bucket
\* whose key is k; otherwise it returns 2 and the index is unchanged; and
\* the binding of every other key is the same before and after.
C11_ScoopUsesGetEquality ==
    [][ (/\ lastOp'.op = "scoop" /\ pc' = "ready"
         /\ \A b \in Range(Reachable(db)) : ~b.freed) =>
          LET k == lastOp'.key
              found == ol_unjar(db, k, Len(k)) # NULL
          IN  /\ (lastOp'.ret = 0) <=> found
              /\ lastOp'.ret = 0 =>
                    \E i \in 1..Len(Reachable(db)) :
                       /\ Reachable(db)[i].key = _ol_trunc(k, Len(k))
                       /\ Reachable(db') = RemoveAt(Reachable(db), i)
              /\ lastOp'.ret # 0 => (lastOp'.ret = 2 /\ db' = db)
              /\ \A j \in Keys \ {k} :
                    ol_unjar(db', j, Len(j)) = ol_unjar(db, j, Len(j))
      ]_vars

\* C12: keys longer than KEY_SIZE are silently truncated. After an ol_jar
\* or ol_jar_ct with a key of more than KEY_SIZE bytes a linked bucket holds
\* the key's first KEY_SIZE bytes with the value, no linked bucket holds a
\* longer key, and ol_unjar and ol_content_type with the full-length key
\* find the value and a content type; and after every call two probes that
\* agree on their first KEY_SIZE bytes find the same bucket, value and
\* content type.
C12_LongKeysTruncated ==
    [][ pc' = "ready" =>
          /\ \A p, q \in LongKeys :
                Take(p, KEY_SIZE) = Take(q, KEY_SIZE) =>
                   /\ ol_unjar(db', p, Len(p)) = ol_unjar(db', q, Len(q))
                   /\ ol_content_type(db', p, Len(p))
                         = ol_content_type(db', q, Len(q))
                   /\ _ol_get_bucket(db',
                          MurmurHash3_x86_32(_ol_trunc(p, Len(p)),
                                             Len(_ol_trunc(p, Len(p)))),
                          _ol_trunc(p, Len(p)), Len(_ol_trunc(p, Len(p))))
                      = _ol_get_bucket(db',
                          MurmurHash3_x86_32(_ol_trunc(q, Len(q)),
                                             Len(_ol_trunc(q, Len(q)))),
                          _ol_trunc(q, Len(q)), Len(_ol_trunc(q, Len(q))))
          /\ (lastOp'.op \in {"jar", "jar_ct"}
              /\ Len(lastOp'.key) > KEY_SIZE) =>
                LET k == lastOp'.key
                IN  /\ \E b \in Range(Reachable(db')) :
                          /\ b.key = Take(k, KEY_SIZE)
                          /\ b.data_ptr = lastOp'.value
                    /\ \A b \in Range(Reachable(db')) : Len(b.key) <= KEY_SIZE
                    /\ ol_unjar(db', k, Len(k)) = lastOp'.value
                    /\ ol_content_type(db', k, Len(k)) # NULL_CT
                    /\ ol_unjar(db, k, Len(k)) # NULL =>
                          db'.rcrd_cnt = db.rcrd_cnt
      ]_vars

\* A put through one long key has updated the record another long key
\* with the same first KEY_SIZE bytes had stored.
C12_Witness ==
    /\ pc = "ready" /\ lastOp.op = "jar" /\ lastOp.found
    /\ lastOp.key = <<1, 1, 2>>
    /\ db.rcrd_cnt >= 2
    /\ ol_unjar(db, <<1, 1, 1>>, 3) = lastOp.value
    /\ \E b \in Range(Reachable(db)) : b.key = <<1, 1>> /\ ~b.freed

\* C13: a stored content type is never empty. After an ol_jar, and after
\* an ol_jar_ct called with content_type_size 0, ol_content_type of the key
\* is "application/octet-stream" and the bucket's ctype_size is 24.
C13_ContentTypeNeverEmpty ==
    (/\ pc = "ready"
     /\ \/ lastOp.op = "jar"
        \/ lastOp.op = "jar_ct" /\ lastOp.ctsize = 0)
    => /\ ol_content_type(db, lastOp.key, Len(lastOp.key)) = DefaultCt
       /\ \E b \in Range(Reachable(db)) :
             /\ b.key = _ol_trunc(lastOp.key, Len(lastOp.key))
             /\ b.content_type = DefaultCt
             /\ b.ctype_size = DefaultCtSize

\* C14: load rejects invalid dump files. After an ol_load_db of a dump
\* file: when the file does not begin with a header carrying the magic and
\* the version, the call has returned -1 and the index is as before; when
\* the file ends before the records its header announces, the call has
\* returned -1 and at most the records present in the file were inserted.
C14_LoadRejectsInvalidDump ==
    (pc = "ready" /\ lastOp.op = "load" /\ dump_ino # 0) =>
       /\ (DumpContent = <<>> \/ DumpContent[1].item # "header") =>
             (lastOp.ret = -1 /\ db = obs.pre)
       /\ (/\ DumpContent # <<>> /\ DumpContent[1].item = "header"
           /\ Len(DumpContent) - 1 < DumpContent[1].rcrd_cnt) =>
             /\ lastOp.ret = -1
             /\ Len(Reachable(db))
                   <= Len(Reachable(obs.pre)) + Len(DumpContent) - 1

-----------------------------------------------------------------------------
(* Claims about replay and the life cycle, checked under SpecAol *)

C16_Lifecycle ==
    [][ /\ pc' = "restore" => db'.state = OL_S_STARTUP
        /\ pc = "restore" => aol_file' = aol_file
        /\ (db # NoDb /\ db' # NoDb) =>
              (db.state = OL_S_AOKAY => db'.state = OL_S_AOKAY)
        /\ pc' = "ready" => db'.state = OL_S_AOKAY
      ]_vars

\* The replay has applied a jar of the log and left a record in the index.
C16_Witness ==
    /\ pc = "restore" /\ lastOp.op = "restore"
    /\ aol_pos >= 1 /\ aol_file[aol_pos].cmd = "JAR"
    /\ db.state = OL_S_STARTUP
    /\ db.rcrd_cnt >= 1

-----------------------------------------------------------------------------
(* Claims about the invariants of the index, checked under Spec *)

\* C17: in every state of an open store rcrd_cnt is the number of buckets
\* reached by walking all chains of the bucket array, so that _ol_close,
\* which counts the buckets it releases, would return 0.
C17_RcrdCntMatchesChains ==
    pc = "ready" =>
       /\ db.rcrd_cnt = Len(Reachable(db))
       /\ _ol_close(db) = 0

\* C18: in every state of an open store each bucket linked in slot i, head
\* or not, that has not been released carries a hash with
\* hash & (N - 1) = i for the current number of slots N, and that hash is
\* the hash of its key.
C18_RecordsInTheirSlot ==
    pc = "ready" =>
       \A i \in 1..Len(db.hashes) :
          \A n \in 1..Len(db.hashes[i]) :
             LET b == db.hashes[i][n]
             IN  ~b.freed =>
                    /\ b.hash = MurmurHash3_x86_32(b.key, b.klen)
                    /\ _ol_calc_idx(db.cur_ht_size, b.hash) = i - 1

\* C19: in every state of an open store no two buckets linked in the same
\* chain, neither of them released, have keys that the comparison of
\* _ol_get_bucket takes for equal.
C19_NoDuplicateKeysInChain ==
    pc = "ready" =>
       \A i \in 1..Len(db.hashes) :
          \A m, n \in 1..Len(db.hashes[i]) :
             LET a == db.hashes[i][m]
                 b == db.hashes[i][n]
             IN  (m < n /\ ~a.freed /\ ~b.freed) =>
                    ~GetMatches(a, b.key, b.klen)

\* C20: the number of slots N changes only by doubling, inside a put of a
\* key that was not found, when rcrd_cnt equals N before the put; when the
\* grow of such a put gets its memory, N has doubled before the record is
\* inserted, and without memory N stays; N is a power of two, is the length
\* of the slot array, and never decreases.
C20_BucketCountDoubles ==
    [][ (pc = "ready" /\ pc' = "ready" /\ db # NoDb /\ db' # NoDb) =>
           LET N    == ol_ht_bucket_max(db.cur_ht_size)
               Nnew == ol_ht_bucket_max(db'.cur_ht_size)
               put  == lastOp'.op = "jar" /\ ~lastOp'.found /\ lastOp'.ret = 0
           IN  /\ Nnew # N => (put /\ db.rcrd_cnt = N /\ Nnew = 2 * N)
               /\ (put /\ db.rcrd_cnt = N /\ obs'.grew) =>
                     /\ ol_ht_bucket_max(obs'.post.cur_ht_size) = 2 * N
                     /\ obs'.post.rcrd_cnt = db.rcrd_cnt
                     /\ db'.rcrd_cnt = db.rcrd_cnt + 1
                     /\ Nnew = 2 * N
               /\ (put /\ db.rcrd_cnt = N /\ ~obs'.grew) => Nnew = N
               /\ Nnew >= N
               /\ \E e \in 1..16 : Nnew = 2 ^ e
               /\ Len(db'.hashes) = Nnew ]_vars

\* Two puts have doubled the table, from 2 slots to 4 and from 4 to 8.
C20_Witness ==
    /\ pc = "ready"
    /\ lastOp.op = "jar"
    /\ ~lastOp.found
    /\ obs.grew
    /\ ol_ht_bucket_max(db.cur_ht_size) = 8
    /\ Len(db.hashes) = 8

\* C21: when a put of a new key finds rcrd_cnt equal to the number of slots
\* and calloc has no memory for the larger bucket array, the put reports an
\* error and leaves the store as it was: no record inserted, rcrd_cnt, the
\* number of slots and every binding unchanged.
C21_GrowFailureAbortsPut ==
    [][ (/\ pc = "ready" /\ pc' = "ready"
         /\ nops' = nops + 1
         /\ lastOp'.op = "jar" /\ ~lastOp'.found
         /\ db.rcrd_cnt > 0
         /\ db.rcrd_cnt = ol_ht_bucket_max(db.cur_ht_size)
         /\ ~obs'.grew) =>
           /\ lastOp'.ret # 0
           /\ db' = db
           /\ Bindings(db') = Bindings(db) ]_vars

\* C22: whenever an ol_jar or ol_scoop reaches ol_aol_write_cmd, the aolfd
\* of the database is a handle ol_open initialised, not the 0 it is given
\* at allocation, whatever calls of open, enable, disable, jar and scoop
\* came before.
C22_AolHandleInitialised ==
    [][ (/\ pc = "ready"
         /\ nops' = nops + 1
         /\ lastOp'.op \in {"jar", "scoop"}
         /\ lastOp'.emitted) => db.aolfd # 0 ]_vars

=============================================================================
